---- MODULE Spec2Model ----
(***************************************************************************)
(* Model of the OnBoard grant aggregator (src/src/main.rs): a Prometheus   *)
(* exporter that fetches the HCB transfer ledger once at start-up and, on  *)
(* every scrape request, refreshes five gauges.                            *)
(*                                                                         *)
(* The ledger API, the GitHub download, the file system and the Airtable   *)
(* API are the environment: each call draws its outcome from the outcomes  *)
(* the real collaborator can produce.  A panic (unwrap / expect on an      *)
(* error) ends the process: pc = "aborted" and panic names the line.       *)
(***************************************************************************)
EXTENDS Integers, Sequences, FiniteSets, TLC

(* ------------------------------ bounds -------------------------------- *)
\* longest ledger the small specification enumerates
MaxLedger == 3
\* elements the ledger API puts on one page in the small specification
PageLen == 2
\* page requests after which the model stops following the pagination loop
MaxPageRequests == 4
\* scrape cycles the model follows
MaxCycles == 2
\* longest ledger of the specification of long batches (the first length a
\* u16 cannot hold)
BulkLen == 65536

(* ------------------------- program constants -------------------------- *)
\* main.rs:127  append_pair("per_page", "100")
PerPage == 100
\* main.rs:158 and main.rs:177  amount_cents / 100
CentsPerDollar == 100
\* main.rs:158  ... <= 100
DollarCap == 100
\* main.rs:164 and main.rs:252  "as u16"
U16Modulus == 65536

\* amount_cents values of the transfers the ledger may hold: a refund of $2.50,
\* a value whose truncated dollars are exactly 100, and $150
Amounts == {-250, 10050, 15000}

\* One raw JSON element of a ledger page: either it deserializes into a
\* Transfer (valid) or serde_json::from_value fails on it.
RawTransfers == [valid : {TRUE}, amount_cents : Amounts] \cup {[valid |-> FALSE, amount_cents |-> 0]}

\* what "projects/" of the repository may hold: entries, each a directory or a file
Trees == {<<"dir", "dir", "dir", "file", "file">>}

\* lengths of the "records" array the Airtable API may answer with
RecordCounts == {3}

\* the AIRTABLE_API environment variable: unset, a usable key, or a key that
\* is no legal header value (e.g. it holds a newline)
Credentials == {"absent", "valid", "invalid_header"}

VARIABLES
    pc,             \* position of main: "hcb_data", "wait", "count_dirs", ... , "aborted"
    panic,          \* "none", or the line whose unwrap/expect ended the process
    ledger,         \* the raw elements the ledger API currently holds
    page_offset,    \* hcb_data: page_offset
    transfers,      \* hcb_data: transfers, the Vec<Transfer> pushed so far
    requested,      \* history: page indices hcb_data requested, in order
    served,         \* history: the response to each request
                    \* (both kept until the first scrape cycle begins)
    transfer_data,  \* main: transfer_data, the Result of hcb_data
    airtable_api,   \* main: airtable_api
    scratch,        \* the file system at "projects/"
    gauges,         \* the five registered gauges
    net_calls,      \* requests sent to the Airtable API
    dirs_outcome,   \* history: how the latest count_dirs call went
    records_resp,   \* history: the Airtable response of the call just made
    cycles,         \* completed scrape cycles
    cycle_log       \* history: per completed cycle, what the ledger held and the
                    \* transfers_count gauge at its end

vars == <<pc, panic, ledger, page_offset, transfers, requested, served, transfer_data,
          airtable_api, scratch, gauges, net_calls, dirs_outcome, records_resp,
          cycles, cycle_log>>

(* ------------------------------ helpers ------------------------------- *)
\* Rust integer division truncates toward zero
TruncDiv(a, b) == IF a >= 0 THEN a \div b ELSE -((-a) \div b)

Min(a, b) == IF a <= b THEN a ELSE b

RECURSIVE GCD(_, _)
GCD(a, b) == IF b = 0 THEN a ELSE GCD(b, a % b)

Abs(a) == IF a < 0 THEN -a ELSE a

\* an f64 that is the quotient of two integers: a reduced fraction, or NaN for 0/0
NaN == [nan |-> TRUE, num |-> 0, den |-> 1]
F64Div(n, d) ==
    IF d = 0 THEN NaN
    ELSE LET g == GCD(Abs(n), d)
         IN  [nan |-> FALSE, num |-> n \div g, den |-> d \div g]
F64(n) == F64Div(n, 1)

RECURSIVE Flatten(_)
Flatten(ss) == IF ss = <<>> THEN <<>> ELSE Head(ss) \o Flatten(Tail(ss))

Last(s) == s[Len(s)]

AllSeqsUpTo(S, n) == UNION {[1..k -> S] : k \in 0..n}

(* --------------------------- pure functions --------------------------- *)
\* main.rs:149  serde_json::from_value(raw_transfer.clone()): Some Transfer or an Err
Deserializes(raw) == raw.valid
FromValue(raw) == [amount_cents |-> raw.amount_cents]

\* a loop that also stops at a body holding no element (a JSON body that is no array)
EndOfData_AnyEmptyBody(resp) == resp.items = <<>>

\* main.rs:143  json.to_string() == "[]"
EndOfData(resp) == resp.kind = "array" /\ resp.items = <<>>

\* a filter that drops the transfers of exactly DollarCap dollars too
Retained_Strict(transfer) == TruncDiv(transfer.amount_cents, CentsPerDollar) < DollarCap

\* main.rs:158  the predicate of transfers.retain
Retained(transfer) == TruncDiv(transfer.amount_cents, CentsPerDollar) <= DollarCap
Retain(ts) == SelectSeq(ts, Retained)

\* main.rs:148-151  the Transfers pushed from one page: every element up to the
\* first one that does not deserialize (there the unwrap panics)
RECURSIVE Pushed(_)
Pushed(items) ==
    IF items = <<>> \/ ~Deserializes(Head(items)) THEN <<>>
    ELSE <<FromValue(Head(items))>> \o Pushed(Tail(items))
PushedAll(items) == [i \in 1..Len(items) |-> FromValue(items[i])]
AllDeserialize(items) == Len(SelectSeq(items, Deserializes)) = Len(items)

Ok(v) == [state |-> "Ok", val |-> v]
Err == [state |-> "Err", val |-> <<>>]
Pending == [state |-> "pending", val |-> <<>>]

\* main.rs:162-170
count_transfers(result) ==
    IF result.state = "Ok" THEN Len(result.val) % U16Modulus ELSE 0

\* main.rs:177  transfer.amount_cents / 100
Dollars(transfer) == TruncDiv(transfer.amount_cents, CentsPerDollar)

\* main.rs:175-178  total after the loop over ts[lo..hi]; integer addition is
\* associative, so the range is halved to keep the recursion shallow on long vectors
RECURSIVE SumDollars(_, _, _)
SumDollars(ts, lo, hi) ==
    IF lo > hi THEN 0
    ELSE IF lo = hi THEN Dollars(ts[lo])
    ELSE LET mid == (lo + hi) \div 2
         IN  SumDollars(ts, lo, mid) + SumDollars(ts, mid + 1, hi)

\* main.rs:172-186
avg_grant(result) ==
    IF result.state = "Ok"
    THEN F64Div(SumDollars(result.val, 1, Len(result.val)), Len(result.val))
    ELSE F64(0)

\* main.rs:105-108  entries that are directories
DirCount(entries) == Cardinality({i \in 1..Len(entries) : entries[i] = "dir"})

\* a match that takes the Ok arm whatever api_key is
KeyFound_Always(api_key) == TRUE

\* main.rs:201-210  the match on api_key: Ok(key) or Err
KeyFound(api_key) == api_key # "absent"

\* main.rs:224  HeaderValue::from_str(&auth_token) is Ok
HeaderOk(api_key) == api_key # "invalid_header"

\* main.rs:239-254  the count taken from a decoded JSON body
NumRecords(resp) ==
    IF resp.kind = "records_array" THEN resp.n % U16Modulus ELSE 0

(* ---------------------------- environment ----------------------------- *)
\* The ledger API's answer to "page = p" with n elements per page
LedgerPage(p, n) ==
    [kind |-> "array", items |-> SubSeq(ledger, p * n + 1, Min((p + 1) * n, Len(ledger)))]

\* answers that are not the array page: a transport error, a body that is no
\* JSON, a JSON body that is no array
Faults == {[kind |-> k, items |-> <<>>] : k \in {"transport_err", "bad_body", "non_array"}}

\* answers of the Airtable API
RecordsResponses ==
    {[kind |-> k, n |-> 0] : k \in {"transport_err", "non_json", "no_records_key", "records_not_array"}}
    \cup {[kind |-> "records_array", n |-> n] : n \in RecordCounts}
NoResponse == [kind |-> "none", n |-> 0]

Absent == [exists |-> FALSE, entries |-> <<>>]
Dir(entries) == [exists |-> TRUE, entries |-> entries]

\* number of transfers of the ledger that deserialize and pass the filter
PassesFilter(raw) == Deserializes(raw) /\ Retained(FromValue(raw))
PassCount(l) == Len(SelectSeq(l, PassesFilter))

(* ------------------------------- Init --------------------------------- *)
ZeroGauges ==
    [submitted_projects |-> F64(0), transfers_count |-> 0, avg_grant |-> F64(0),
     airtable_records |-> 0, airtable_records_pending |-> 0]

InitWith(ledgers, credentials) ==
    /\ pc = "hcb_data"
    /\ panic = "none"
    /\ ledger \in ledgers
    /\ page_offset = 0
    /\ transfers = <<>>
    /\ requested = <<>>
    /\ served = <<>>
    /\ transfer_data = Pending
    /\ airtable_api \in credentials
    /\ scratch = Absent
    /\ gauges = ZeroGauges
    /\ net_calls = 0
    /\ dirs_outcome = "none"
    /\ records_resp = NoResponse
    /\ cycles = 0
    /\ cycle_log = <<>>

Init == InitWith(AllSeqsUpTo(RawTransfers, MaxLedger), Credentials)

(* ------------------------------ actions ------------------------------- *)
\* the ledger gains a transfer while the process is not in a scrape cycle
\* (inside a cycle the program never contacts the ledger)
LedgerPost ==
    /\ pc \in {"hcb_data", "wait"}
    /\ Len(ledger) < MaxLedger
    /\ \E raw \in RawTransfers : ledger' = Append(ledger, raw)
    /\ UNCHANGED <<pc, panic, page_offset, transfers, requested, served, transfer_data,
                   airtable_api, scratch, gauges, net_calls, dirs_outcome, records_resp,
                   cycles, cycle_log>>

\* main.rs:26 and 124-159: one iteration of the pagination loop of hcb_data,
\* with the return to main when the loop ends
hcb_data(n, faults, max_requests) ==
    /\ pc = "hcb_data"
    /\ page_offset < max_requests
    /\ \E resp \in faults \cup {LedgerPage(page_offset, n)} :
        /\ requested' = Append(requested, page_offset)
        /\ served' = Append(served, resp)
        /\ IF resp.kind \in {"transport_err", "bad_body"}
           THEN \* line 135 / 136: the ? operator returns the Err
                /\ transfer_data' = Err
                /\ transfers' = <<>>
                /\ pc' = "wait"
                /\ UNCHANGED <<page_offset, panic>>
           ELSE IF EndOfData(resp)
           THEN \* line 143-144, 158-159
                /\ transfer_data' = Ok(Retain(transfers))
                /\ transfers' = <<>>
                /\ pc' = "wait"
                /\ UNCHANGED <<page_offset, panic>>
           ELSE IF resp.kind = "array" /\ ~AllDeserialize(resp.items)
           THEN \* line 149: unwrap on the Err of from_value
                /\ transfers' = transfers \o Pushed(resp.items)
                /\ pc' = "aborted"
                /\ panic' = "hcb_data:149"
                /\ UNCHANGED <<page_offset, transfer_data>>
           ELSE \* line 147-155
                /\ transfers' = IF resp.kind = "array"
                                THEN transfers \o PushedAll(resp.items)
                                ELSE transfers
                /\ page_offset' = page_offset + 1
                /\ UNCHANGED <<pc, panic, transfer_data>>
    /\ UNCHANGED <<ledger, airtable_api, scratch, gauges, net_calls, dirs_outcome,
                   records_resp, cycles, cycle_log>>

\* main.rs:60  exporter.wait_request() returns: a scrape request came in
wait_request(max_cycles) ==
    /\ pc = "wait"
    /\ cycles < max_cycles
    /\ pc' = "count_dirs"
    /\ requested' = <<>>
    /\ served' = <<>>
    /\ records_resp' = NoResponse
    /\ UNCHANGED <<panic, ledger, page_offset, transfers, transfer_data, airtable_api,
                   scratch, gauges, net_calls, dirs_outcome, cycles, cycle_log>>

\* main.rs:65 and 92-118
count_dirs ==
    /\ pc = "count_dirs"
    /\ \/ \* line 95-99: the download fails, unwrap panics
          /\ dirs_outcome' = "fetch_failed"
          /\ pc' = "aborted"
          /\ panic' = "count_dirs:99"
          /\ UNCHANGED <<scratch, gauges>>
       \/ \* line 102: the download worked, read_dir fails, expect panics
          \E tree \in Trees :
            /\ scratch' = Dir(tree)
            /\ dirs_outcome' = "read_dir_failed"
            /\ pc' = "aborted"
            /\ panic' = "count_dirs:102"
            /\ UNCHANGED gauges
       \/ \* line 105-117: counted; remove_dir_all succeeds or fails
          \E tree \in Trees, removed \in BOOLEAN :
            /\ scratch' = IF removed THEN Absent ELSE Dir(tree)
            /\ dirs_outcome' = IF removed THEN "counted" ELSE "remove_failed"
            /\ gauges' = [gauges EXCEPT !.submitted_projects = F64(DirCount(tree))]
            /\ pc' = "count_transfers"
            /\ UNCHANGED panic
    /\ UNCHANGED <<ledger, page_offset, transfers, requested, served, transfer_data,
                   airtable_api, net_calls, records_resp, cycles, cycle_log>>

\* main.rs:67
set_transfers_count ==
    /\ pc = "count_transfers"
    /\ gauges' = [gauges EXCEPT !.transfers_count = count_transfers(transfer_data)]
    /\ pc' = "avg_grant"
    /\ UNCHANGED <<panic, ledger, page_offset, transfers, requested, served, transfer_data,
                   airtable_api, scratch, net_calls, dirs_outcome, records_resp,
                   cycles, cycle_log>>

\* main.rs:69
set_avg_grant ==
    /\ pc = "avg_grant"
    /\ gauges' = [gauges EXCEPT !.avg_grant = avg_grant(transfer_data)]
    /\ pc' = "airtable_approved"
    /\ UNCHANGED <<panic, ledger, page_offset, transfers, requested, served, transfer_data,
                   airtable_api, scratch, net_calls, dirs_outcome, records_resp,
                   cycles, cycle_log>>

\* main.rs:188-254 called for one view, and the gauge main sets from it
\* (line 71-75 for Approved, line 80-84 for Pending)
airtable_verifications(at, gauge, next) ==
    /\ pc = at
    /\ IF ~KeyFound(airtable_api)
       THEN \* line 206-209
            /\ gauges' = [gauges EXCEPT ![gauge] = 0]
            /\ pc' = next
            /\ UNCHANGED <<panic, net_calls, records_resp>>
       ELSE IF ~HeaderOk(airtable_api)
       THEN \* line 224: expect("Invalid header value")
            /\ pc' = "aborted"
            /\ panic' = "airtable_verifications:224"
            /\ UNCHANGED <<gauges, net_calls, records_resp>>
       ELSE \* line 227-231: the request is sent
            /\ net_calls' = net_calls + 1
            /\ \E resp \in RecordsResponses :
                /\ records_resp' = resp
                /\ IF resp.kind = "transport_err"
                   THEN \* line 232: response.unwrap()
                        /\ pc' = "aborted"
                        /\ panic' = "airtable_verifications:232"
                        /\ UNCHANGED gauges
                   ELSE IF resp.kind = "non_json"
                   THEN \* line 238: json.unwrap()
                        /\ pc' = "aborted"
                        /\ panic' = "airtable_verifications:238"
                        /\ UNCHANGED gauges
                   ELSE \* line 241-254
                        /\ gauges' = [gauges EXCEPT ![gauge] = NumRecords(resp)]
                        /\ pc' = next
                        /\ UNCHANGED panic
    /\ UNCHANGED <<ledger, page_offset, transfers, requested, served, transfer_data,
                   airtable_api, scratch, dirs_outcome>>

airtable_approved ==
    /\ airtable_verifications("airtable_approved", "airtable_records", "airtable_pending")
    /\ UNCHANGED <<cycles, cycle_log>>

\* the last step of a cycle: back to the top of the loop (line 58)
airtable_pending ==
    /\ airtable_verifications("airtable_pending", "airtable_records_pending", "wait")
    /\ IF pc' = "wait"
       THEN /\ cycles' = cycles + 1
            /\ cycle_log' = Append(cycle_log, [ledger_pass |-> PassCount(ledger),
                                               ledger_ok |-> AllDeserialize(ledger),
                                               transfers_count |-> gauges.transfers_count])
       ELSE UNCHANGED <<cycles, cycle_log>>

Next ==
    \/ LedgerPost
    \/ hcb_data(PageLen, Faults, MaxPageRequests)
    \/ wait_request(MaxCycles)
    \/ count_dirs
    \/ set_transfers_count
    \/ set_avg_grant
    \/ airtable_approved
    \/ airtable_pending

Spec == Init /\ [][Next]_vars

\* The program late in the fetch of a long ledger: the ledger holds BulkLen - 1
\* or BulkLen well-formed $50 transfers, the ledger API serves PerPage of them
\* to a page without fault, and the pagination loop has fetched every full
\* page but the last one.
BulkLedger(n) == SubSeq([i \in 1..n |-> [valid |-> TRUE, amount_cents |-> 5000]], 1, n)
PagesFetched(l) == (Len(l) \div PerPage) - 1

InitLongLedger ==
    /\ pc = "hcb_data"
    /\ panic = "none"
    /\ ledger \in {BulkLedger(BulkLen - 1), BulkLedger(BulkLen)}
    /\ page_offset = PagesFetched(ledger)
    /\ transfers = PushedAll(SubSeq(ledger, 1, PagesFetched(ledger) * PerPage)) \o <<>>
    /\ requested = [i \in 1..PagesFetched(ledger) |-> i - 1] \o <<>>
    /\ served = [i \in 1..PagesFetched(ledger) |-> LedgerPage(i - 1, PerPage)] \o <<>>
    /\ transfer_data = Pending
    /\ airtable_api \in Credentials
    /\ scratch = Absent
    /\ gauges = ZeroGauges
    /\ net_calls = 0
    /\ dirs_outcome = "none"
    /\ records_resp = NoResponse
    /\ cycles = 0
    /\ cycle_log = <<>>

NextLongLedger ==
    \/ hcb_data(PerPage, {}, (BulkLen \div PerPage) + 2)
    \/ wait_request(MaxCycles)
    \/ count_dirs
    \/ set_transfers_count
    \/ set_avg_grant
    \/ airtable_approved
    \/ airtable_pending

SpecLongLedger == InitLongLedger /\ [][NextLongLedger]_vars

(* ======================= properties of the program ==================== *)
\* the elements of every page served so far, in page order
ServedItems == Flatten([i \in 1..Len(served) |-> served[i].items])
ServedTransfers == [i \in 1..Len(ServedItems) |-> [amount_cents |-> ServedItems[i].amount_cents]]
WellFormedPage(resp) ==
    resp.kind = "array" /\ \A i \in 1..Len(resp.items) : resp.items[i].valid
EmptyListPage(resp) == resp.kind = "array" /\ Len(resp.items) = 0
WithinCap(transfer) == TruncDiv(transfer.amount_cents, 100) <= 100
FetchReturned == pc # "hcb_data" /\ served # <<>>

\* C1: when every page served is a list of transfers and the last one is the
\* empty list, hcb_data has returned Ok with the concatenation, in page order,
\* of all the pages' elements whose truncated dollars are <= 100 (an empty
\* first page gives the empty batch); while the loop runs, transfers holds
\* every element served, unfiltered: the filter runs once, after the loop.
C1_ConcatThenFilter ==
    /\ pc = "hcb_data" => transfers = ServedTransfers
    /\ (/\ served # <<>>
        /\ \A i \in 1..Len(served) : WellFormedPage(served[i])
        /\ EmptyListPage(Last(served)))
       => /\ pc # "hcb_data"
          /\ panic = "none"
          /\ transfer_data = [state |-> "Ok", val |-> SelectSeq(ServedTransfers, WithinCap)]

\* C1 witness: two non-empty pages and the empty one were served, the batch
\* keeps two transfers and drops one
C1_Witness ==
    /\ pc = "wait"
    /\ Len(served) = 3
    /\ served[1].items # <<>> /\ served[2].items # <<>> /\ EmptyListPage(served[3])
    /\ transfer_data.state = "Ok"
    /\ Len(transfer_data.val) = 2
    /\ Len(ServedTransfers) = 3

PageFailed(resp) ==
    \/ resp.kind \in {"transport_err", "bad_body"}
    \/ resp.kind = "array" /\ ~WellFormedPage(resp)

\* C2: a transport failure or a JSON-decoding failure (of the body or of an
\* element) on any page makes hcb_data return one Err: the process keeps
\* running, and count_transfers gives 0 and avg_grant 0.0 for it.
C2_FailureIsOneErr ==
    (FetchReturned /\ PageFailed(Last(served)))
    => /\ panic = "none"
       /\ pc # "aborted"
       /\ transfer_data.state = "Err"
       /\ count_transfers(transfer_data) = 0
       /\ avg_grant(transfer_data) = F64(0)

\* C3: after count_dirs has finished, whether it counted, the download failed
\* or read_dir failed, "projects/" does not exist.
C3_ScratchRemoved ==
    dirs_outcome \in {"counted", "fetch_failed", "read_dir_failed"} => ~scratch.exists

AirtableSites ==
    {"airtable_verifications:224", "airtable_verifications:232", "airtable_verifications:238"}
ExpectedRecords(resp) == IF resp.kind = "records_array" THEN resp.n ELSE 0

\* C4: airtable_verifications never fails: with a credential, a transport
\* failure, a non-JSON body, a body without "records" and a "records" that is
\* no array all give 0 and the process keeps running; an array gives its length.
C4_RecordsCounterNeverFails ==
    /\ panic \notin AirtableSites
    /\ (records_resp.kind # "none" /\ pc = "airtable_pending")
       => gauges.airtable_records = ExpectedRecords(records_resp)
    /\ (records_resp.kind # "none" /\ pc = "wait")
       => gauges.airtable_records_pending = ExpectedRecords(records_resp)

\* C5: without a credential both views give 0 and no request is ever sent to
\* the Airtable API.
C5_NoCredentialNoRequest ==
    airtable_api = "absent"
    => /\ net_calls = 0
       /\ records_resp = NoResponse
       /\ panic \notin AirtableSites
       /\ gauges.airtable_records = 0
       /\ gauges.airtable_records_pending = 0

\* C5 witness: no credential, and a cycle that called both views has completed
C5_Witness == airtable_api = "absent" /\ cycles >= 1 /\ pc = "wait"

\* C6: every cycle fetches the ledger anew: when the ledger holds one more
\* filter-passing transfer at a cycle than at the cycle before it,
\* transfers_count after the cycle is one greater than after the one before.
C6_CountFollowsLedger ==
    \A i \in 2..Len(cycle_log) :
        (/\ cycle_log[i - 1].ledger_ok
         /\ cycle_log[i].ledger_ok
         /\ cycle_log[i].ledger_pass = cycle_log[i - 1].ledger_pass + 1)
        => cycle_log[i].transfers_count = cycle_log[i - 1].transfers_count + 1

\* C7: a failed download or a failed read_dir in count_dirs ends the process
\* before any gauge of that cycle is written, and nothing else ever ends it.
C7_OnlyCensusIsFatal ==
    /\ dirs_outcome \in {"fetch_failed", "read_dir_failed"}
       => /\ pc = "aborted"
          /\ cycles = 0 => gauges = ZeroGauges
    /\ panic # "none" => panic \in {"count_dirs:99", "count_dirs:102"}

\* the sum of amount_cents over ts[lo..hi]
RECURSIVE SumCents(_, _, _)
SumCents(ts, lo, hi) ==
    IF lo > hi THEN 0 ELSE ts[lo].amount_cents + SumCents(ts, lo + 1, hi)

\* C8: for a successful non-empty batch the avg_grant gauge is the mean dollar
\* value of the batch, sum(amount_cents) / 100 / len; for a failed fetch 0.0.
C8_MeanOfSummedCents ==
    pc = "airtable_approved"
    => /\ (transfer_data.state = "Ok" /\ Len(transfer_data.val) > 0)
          => gauges.avg_grant =
                F64Div(SumCents(transfer_data.val, 1, Len(transfer_data.val)),
                       100 * Len(transfer_data.val))
       /\ transfer_data.state = "Err" => gauges.avg_grant = F64(0)

\* C9: the transfers_count gauge is the length of the batch, whatever its
\* size, and 0 for a failed fetch.
C9_CountIsBatchLength ==
    pc = "avg_grant"
    => gauges.transfers_count =
          (IF transfer_data.state = "Ok" THEN Len(transfer_data.val) ELSE 0)

Continues(resp) ==
    \/ resp.kind = "non_array"
    \/ resp.kind = "array" /\ Len(resp.items) > 0 /\ WellFormedPage(resp)

\* C10: hcb_data requests pages 0, 1, 2, ... in order, once each; after a
\* non-empty array page and after a JSON body that is no array (which adds no
\* element) it goes on to the next index; it returns Ok exactly at the first
\* empty-list page, and otherwise ends only on a failed page.
C10_Pagination ==
    /\ Len(requested) = Len(served)
    /\ \A i \in 1..Len(requested) : requested[i] = i - 1
    /\ pc = "hcb_data"
       => /\ page_offset = Len(requested)
          /\ Len(transfers) = Len(Flatten([i \in 1..Len(served) |->
                 IF served[i].kind = "array" THEN served[i].items ELSE <<>>]))
    /\ \A i \in 1..Len(served) :
          (i < Len(served) \/ pc = "hcb_data") => Continues(served[i])
    /\ FetchReturned
       => /\ EmptyListPage(Last(served)) \/ PageFailed(Last(served))
          /\ transfer_data.state = "Ok" <=> EmptyListPage(Last(served))

\* C10 witness: a non-array body, then a non-empty page, then the empty list
C10_Witness ==
    /\ pc = "wait"
    /\ Len(served) = 3
    /\ served[1].kind = "non_array"
    /\ served[2].kind = "array" /\ Len(served[2].items) > 0
    /\ EmptyListPage(served[3])
    /\ transfer_data.state = "Ok"
    /\ requested = <<0, 1, 2>>
====
